---- MODULE Spec2Model ----
(***************************************************************************)
(* Model of the Obsidian semantic-search plugin (SemanticSearchPlugin):    *)
(* the embedding provider createEmbeddingForNote, the in-memory index      *)
(* `embeddings` (a JavaScript Map, i.e. an insertion-ordered key/value     *)
(* store), the rebuild operations that write it, performSemanticSearch     *)
(* that reads it, and the settings that hold the result limit.             *)
(*                                                                         *)
(* Numbers: vector components are integers from a small domain.  A cosine  *)
(* score dot / (sqrt(m1) * sqrt(m2)) is kept exactly as the pair           *)
(* [n |-> dot, d |-> m1 * m2] (value n / sqrt(d)); scores are compared by  *)
(* sign and cross-multiplied squares.  [n |-> 0, d |-> 0] is NaN (0/0).    *)
(***************************************************************************)
EXTENDS Integers, Sequences, FiniteSets, TLC

\* ------------------------------------------------------------------ bounds
MaxDim == 2            \* longest vector drawn for the pure-function checks
MaxEntryLen == 2       \* longest text typed into the "Max Number of Notes" box
MaxRibbon == 1         \* ribbon-icon clicks per plugin lifetime
MaxVaultEdits == 1     \* notes created or deleted by the user

\* ------------------------------------------------------- program constants
DefaultMaxNumberOfNotes == 5

\* --------------------------------------------------------------- domains
Paths == {"A", "B"}
PathOrder == <<"A", "B">>          \* order in which the vault lists its files
Components == {-1, 0, 1}
Alphabet == {"0", "1", "2", "-", "a"}
StoredValues == {0}                 \* maxNumberOfNotes values data.json may hold (index in use)
SettingsStoredValues == {-1, 0, 1, 2}   \* the same for the settings tab on its own
MainVecs == {<<1, 0>>, <<1, 1>>}    \* vectors the service returns during rebuild and search
MainEntries == {<<"1">>, <<"0">>}   \* settings-tab entries typed while the index is in use

VARIABLES
    vec1, vec2, cosOut,    \* arguments and result of one calculateCosineSimilarity call
    fetchResp, embCall,    \* outcome of the HTTP exchange and record of one createEmbeddingForNote call
    provider,              \* the service as a function of the text sent (used when it is deterministic)
    vault,                 \* markdown files currently in the vault
    data,                  \* data.json: [present, maxNumberOfNotes]
    settings,              \* this.settings: [loaded, maxNumberOfNotes]
    onloadPc,              \* position of onload()
    embeddings,            \* this.embeddings: sequence of [path, vec] in insertion order
    tasks,                 \* running traversals: 0 = createEmbeddingsForAllNotes, 1.. = ribbon clicks
    search,                \* the "Perform Semantic Search" command invocation
    vaultEdits             \* number of vault edits so far

vars == <<vec1, vec2, cosOut, fetchResp, embCall, provider, vault, data, settings,
          onloadPc, embeddings, tasks, search, vaultEdits>>

pureVars == <<vec1, vec2, cosOut, fetchResp, embCall, provider>>
pluginVars == <<vault, data, settings, onloadPc, embeddings, tasks, search, vaultEdits>>

\* ------------------------------------------------------------ JS values
\* A JavaScript value as seen by Array.isArray: an array with its elements,
\* or anything else (undefined, a string, a number, an object).
Arr(s) == [isArray |-> TRUE, elems |-> s]
NotArray == [isArray |-> FALSE, elems |-> <<>>]

RECURSIVE SeqsUpTo(_, _)
SeqsUpTo(S, n) ==
    IF n = 0 THEN {<<>>}
    ELSE LET shorter == SeqsUpTo(S, n - 1)
         IN shorter \cup {Append(s, x) : s \in {t \in shorter : Len(t) = n - 1}, x \in S}

Range(s) == {s[i] : i \in 1..Len(s)}

\* ---------------------------------------------------------------- scores
Zero == [n |-> 0, d |-> 1]
NaN == [n |-> 0, d |-> 0]
IsNaN(s) == s.d = 0

\* IEEE division dot / (magnitude1 * magnitude2) with d = m1sq * m2sq.
\* A zero norm forces dot = 0, so a zero divisor yields 0/0 = NaN.
Divide(dot, d) ==
    IF d = 0 THEN NaN
    ELSE IF dot = 0 THEN Zero
    ELSE [n |-> dot, d |-> d]

\* sign of s - t for two non-NaN scores
ScoreCmp(s, t) ==
    IF s.n >= 0 /\ t.n <= 0 THEN (IF s.n = 0 /\ t.n = 0 THEN 0 ELSE 1)
    ELSE IF s.n <= 0 /\ t.n >= 0 THEN -1
    ELSE LET l == s.n * s.n * t.d
             r == t.n * t.n * s.d
         IN IF l = r THEN 0
            ELSE IF s.n > 0 THEN (IF l > r THEN 1 ELSE -1)
            ELSE (IF l > r THEN -1 ELSE 1)

ScoreEq(s, t) == IF IsNaN(s) \/ IsNaN(t) THEN FALSE ELSE ScoreCmp(s, t) = 0
ScoreGE(s, t) == IF IsNaN(s) \/ IsNaN(t) THEN FALSE ELSE ScoreCmp(s, t) >= 0
ScoreGT(s, t) == IF IsNaN(s) \/ IsNaN(t) THEN FALSE ELSE ScoreCmp(s, t) > 0

\* ------------------------------------------------ calculateCosineSimilarity
\* vec1.reduce((sum, val, i) => sum + val * vec2[i], 0)
RECURSIVE DotUpTo(_, _, _)
DotUpTo(a, b, k) ==
    IF k = 0 THEN 0 ELSE DotUpTo(a, b, k - 1) + a[k] * b[k]

DotProduct(a, b) == DotUpTo(a, b, Len(a))

\* vec.reduce((sum, val) => sum + val * val, 0): the square of the magnitude
RECURSIVE SumSqUpTo(_, _)
SumSqUpTo(a, k) ==
    IF k = 0 THEN 0 ELSE SumSqUpTo(a, k - 1) + a[k] * a[k]

SumSquares(a) == SumSqUpTo(a, Len(a))

CosNoNormGuard(v1, v2) ==
    IF \/ ~v1.isArray
       \/ ~v2.isArray
       \/ Len(v1.elems) = 0
       \/ Len(v2.elems) = 0
       \/ Len(v1.elems) # Len(v2.elems)
    THEN Zero
    ELSE Divide(DotProduct(v1.elems, v2.elems),
                SumSquares(v1.elems) * SumSquares(v2.elems))

CosFirstNormOnly(v1, v2) ==
    IF \/ ~v1.isArray
       \/ ~v2.isArray
       \/ Len(v1.elems) = 0
       \/ Len(v2.elems) = 0
       \/ Len(v1.elems) # Len(v2.elems)
    THEN Zero
    ELSE LET m1sq == SumSquares(v1.elems)
         IN IF m1sq = 0 THEN Zero
            ELSE Divide(DotProduct(v1.elems, v2.elems), m1sq * m1sq)

CalculateCosineSimilarity(v1, v2) ==
    IF \/ ~v1.isArray
       \/ ~v2.isArray
       \/ Len(v1.elems) = 0
       \/ Len(v2.elems) = 0
       \/ Len(v1.elems) # Len(v2.elems)
    THEN Zero
    ELSE LET dotProduct == DotProduct(v1.elems, v2.elems)
             m1sq == SumSquares(v1.elems)
             m2sq == SumSquares(v2.elems)
         IN IF m1sq = 0 \/ m2sq = 0 THEN Zero
            ELSE Divide(dotProduct, m1sq * m2sq)

\* --------------------------------------------------- createEmbeddingForNote
\* Outcomes of fetch(...) followed by response.json():
\*   networkError : fetch rejects (server down, connection refused)
\*   badJson      : response.json() rejects (body is not JSON)
\*   json         : a JSON body; isNull when the body is `null`, otherwise
\*                  `embedding` is the value of data.embedding (NotArray when
\*                  the field is missing or holds a non-array)
NetworkError == [kind |-> "networkError", isNull |-> FALSE, embedding |-> NotArray]
BadJson == [kind |-> "badJson", isNull |-> FALSE, embedding |-> NotArray]
JsonNull == [kind |-> "json", isNull |-> TRUE, embedding |-> NotArray]
JsonBody(e) == [kind |-> "json", isNull |-> FALSE, embedding |-> e]

\* The try block: either it throws, or it returns with some notices shown.
TryBody(resp) ==
    IF resp.kind = "networkError" THEN [threw |-> TRUE, ret |-> <<>>, notices |-> 0]
    ELSE IF resp.kind = "badJson" THEN [threw |-> TRUE, ret |-> <<>>, notices |-> 0]
    ELSE IF resp.isNull THEN [threw |-> TRUE, ret |-> <<>>, notices |-> 0]
    ELSE IF resp.embedding.isArray /\ Len(resp.embedding.elems) > 0
         THEN [threw |-> FALSE, ret |-> resp.embedding.elems, notices |-> 0]
         ELSE [threw |-> FALSE, ret |-> <<>>, notices |-> 1]

EmbedNoCatch(resp) ==
    LET body == TryBody(resp)
    IN [raised |-> body.threw, ret |-> body.ret, notices |-> body.notices]

\* try { ... } catch (error) { new Notice(...); return []; }
CreateEmbeddingForNote(resp) ==
    LET body == TryBody(resp)
    IN IF body.threw
       THEN [raised |-> FALSE, ret |-> <<>>, notices |-> body.notices + 1]
       ELSE [raised |-> FALSE, ret |-> body.ret, notices |-> body.notices]

\* ------------------------------------------------------------- parseInt
Digits == <<"0", "1", "2", "3", "4", "5", "6", "7", "8", "9">>
IsDigit(c) == \E i \in 1..10 : Digits[i] = c
DigitVal(c) == (CHOOSE i \in 1..10 : Digits[i] = c) - 1

\* value of the longest run of decimal digits starting at position k,
\* continuing the number acc; [nan |-> TRUE] when the run is empty
RECURSIVE ParseDigits(_, _, _, _)
ParseDigits(str, k, acc, any) ==
    IF k <= Len(str) /\ IsDigit(str[k])
    THEN ParseDigits(str, k + 1, acc * 10 + DigitVal(str[k]), TRUE)
    ELSE [nan |-> ~any, val |-> acc]

\* parseInt(value): optional sign, then the longest prefix of decimal
\* digits; anything after that prefix is ignored; NaN when no digit is found.
ParseInt(str) ==
    IF Len(str) > 0 /\ str[1] = "-"
    THEN LET r == ParseDigits(str, 2, 0, FALSE)
         IN [nan |-> r.nan, val |-> 0 - r.val]
    ELSE ParseDigits(str, 1, 0, FALSE)

\* ------------------------------------------------------------ the Map
Keys(m) == {m[i].path : i \in 1..Len(m)}
HasKey(m, p) == \E i \in 1..Len(m) : m[i].path = p
Lookup(m, p) == m[CHOOSE i \in 1..Len(m) : m[i].path = p].vec

\* Map.prototype.set: an existing key keeps its position and takes the new
\* value; a new key is appended.
MapSetAppendOnly(m, p, v) == Append(m, [path |-> p, vec |-> v])

MapSet(m, p, v) ==
    IF HasKey(m, p)
    THEN [i \in 1..Len(m) |-> IF m[i].path = p THEN [path |-> p, vec |-> v] ELSE m[i]]
    ELSE Append(m, [path |-> p, vec |-> v])

\* ------------------------------------------------- performSemanticSearch
\* the comparator (a, b) => b.score - a.score; a NaN result counts as 0
Comparator(a, b) ==
    IF IsNaN(a.score) \/ IsNaN(b.score) THEN 0 ELSE ScoreCmp(b.score, a.score)

\* Array.prototype.sort is stable: x goes before the first element the
\* comparator orders after it.
RECURSIVE InsertSortedUnstable(_, _, _)
InsertSortedUnstable(sorted, x, k) ==
    IF k > Len(sorted) THEN Append(sorted, x)
    ELSE IF Comparator(sorted[k], x) >= 0
         THEN SubSeq(sorted, 1, k - 1) \o <<x>> \o SubSeq(sorted, k, Len(sorted))
         ELSE InsertSortedUnstable(sorted, x, k + 1)

RECURSIVE InsertSorted(_, _, _)
InsertSorted(sorted, x, k) ==
    IF k > Len(sorted) THEN Append(sorted, x)
    ELSE IF Comparator(sorted[k], x) > 0
         THEN SubSeq(sorted, 1, k - 1) \o <<x>> \o SubSeq(sorted, k, Len(sorted))
         ELSE InsertSorted(sorted, x, k + 1)

RECURSIVE SortUpTo(_, _)
SortUpTo(s, k) ==
    IF k = 0 THEN <<>> ELSE InsertSorted(SortUpTo(s, k - 1), s[k], 1)

SortNone(s) == s

SortByScoreDesc(s) == SortUpTo(s, Len(s))

SliceAll(s, end) == s

\* Array.prototype.slice(0, end) for an integer end
Slice(s, end) ==
    LET k == IF end < 0
             THEN (IF Len(s) + end < 0 THEN 0 ELSE Len(s) + end)
             ELSE (IF end > Len(s) THEN Len(s) ELSE end)
    IN SubSeq(s, 1, k)

ScoreAll(q, index) ==
    [i \in 1..Len(index) |->
        [path |-> index[i].path,
         score |-> CalculateCosineSimilarity(Arr(q), Arr(index[i].vec))]]

\* everything performSemanticSearch does after the query embedding arrives
RankAndCut(q, index, limit) == Slice(SortByScoreDesc(ScoreAll(q, index)), limit)

\* ------------------------------------------------------------ the state
JSValues == {NotArray} \cup {Arr(v) : v \in SeqsUpTo(Components, MaxDim)}
Responses == {NetworkError, BadJson, JsonNull} \cup {JsonBody(e) : e \in JSValues}
MainResponses == {NetworkError, JsonBody(NotArray)} \cup {JsonBody(Arr(v)) : v \in MainVecs}
Entries == SeqsUpTo(Alphabet, MaxEntryLen)

AbsentData == [present |-> FALSE, maxNumberOfNotes |-> 0]
StoredData == {AbsentData} \cup {[present |-> TRUE, maxNumberOfNotes |-> v] : v \in StoredValues}
SettingsStoredData ==
    {AbsentData} \cup {[present |-> TRUE, maxNumberOfNotes |-> v] : v \in SettingsStoredValues}

TaskIds == 0..MaxRibbon
LoadTask == 0
IdleTask == [phase |-> "idle", files |-> <<>>, i |-> 1, waiting |-> FALSE, failed |-> {},
             requests |-> 0, writes |-> 0]
IdleSearch == [pc |-> "idle", q |-> <<>>, seen |-> <<>>, limit |-> 0,
               results |-> <<>>, overlap |-> FALSE,
               submitted |-> FALSE, requests |-> 0, displays |-> 0]
IdleCos == [done |-> FALSE, score |-> Zero, swapDone |-> FALSE, swapScore |-> Zero]
IdleCall == [pc |-> "idle", requests |-> 0, notices |-> 0, ret |-> <<>>]

\* this.app.vault.getMarkdownFiles()
VaultFiles(v) == SelectSeq(PathOrder, LAMBDA p : p \in v)

InFlight(k) == k.phase \in {"traverse", "second"}

NoProvider == [p \in Paths |-> NetworkError]

PureIdle ==
    /\ vec1 = NotArray /\ vec2 = NotArray /\ cosOut = IdleCos
    /\ fetchResp = NetworkError /\ embCall = IdleCall
    /\ provider = NoProvider

PluginFresh ==
    /\ settings = [loaded |-> FALSE, maxNumberOfNotes |-> 0]
    /\ onloadPc = "loadSettings"
    /\ embeddings = <<>>
    /\ tasks = [t \in TaskIds |-> IdleTask]
    /\ search = IdleSearch
    /\ vaultEdits = 0

\* A freshly constructed plugin instance in some vault with some data.json.
Init ==
    /\ PureIdle
    /\ vault \in SUBSET Paths
    /\ data \in StoredData
    /\ PluginFresh

\* ------------------------------------------------------------ settings
\* loadSettings: Object.assign({}, DEFAULT_SETTINGS, await this.loadData())
LoadSettings ==
    /\ onloadPc = "loadSettings"
    /\ settings' = [loaded |-> TRUE,
                    maxNumberOfNotes |-> IF data.present THEN data.maxNumberOfNotes
                                         ELSE DefaultMaxNumberOfNotes]
    /\ onloadPc' = "fetchTags"
    /\ UNCHANGED <<pureVars, vault, data, embeddings, tasks, search, vaultEdits>>

\* onload after the /api/tags exchange: every branch ends in saveSettings()
OnloadFetchTags ==
    /\ onloadPc = "fetchTags"
    /\ data' = [present |-> TRUE, maxNumberOfNotes |-> settings.maxNumberOfNotes]
    /\ onloadPc' = "register"
    /\ UNCHANGED <<pureVars, vault, settings, embeddings, tasks, search, vaultEdits>>

\* The "Max Number of Notes" text box onChange handler.
SettingOnChange(value) ==
    /\ onloadPc \in {"rebuild", "done", "rejected"}
    /\ LET numValue == ParseInt(value)
       IN IF ~numValue.nan /\ numValue.val > 0
          THEN /\ settings' = [settings EXCEPT !.maxNumberOfNotes = numValue.val]
               /\ data' = [present |-> TRUE, maxNumberOfNotes |-> numValue.val]
          ELSE UNCHANGED <<settings, data>>
    /\ UNCHANGED <<pureVars, vault, onloadPc, embeddings, tasks, search, vaultEdits>>

\* ------------------------------------------------------------ traversals
\* traverseAndReadMarkdownFiles up to its first await: the file list is taken.
StartedTask(v) ==
    [phase |-> IF VaultFiles(v) = <<>> THEN "done" ELSE "traverse",
     files |-> VaultFiles(v), i |-> 1, waiting |-> FALSE, failed |-> {},
     requests |-> 0, writes |-> 0]

\* onload from the chat check to `await this.createEmbeddingsForAllNotes()`:
\* the ribbon icon and the settings tab are registered, the rebuild starts.
\* With no markdown files both loops are empty and the search command is
\* registered at once.
OnloadRegister ==
    /\ onloadPc = "register"
    /\ tasks' = [tasks EXCEPT ![LoadTask] = StartedTask(vault)]
    /\ onloadPc' = IF VaultFiles(vault) = <<>> THEN "done" ELSE "rebuild"
    /\ UNCHANGED <<pureVars, vault, data, settings, embeddings, search, vaultEdits>>

\* the ribbon-icon callback up to its first await
RibbonClick(t) ==
    /\ onloadPc \in {"rebuild", "done", "rejected"}
    /\ t # LoadTask
    /\ tasks[t].phase = "idle"
    /\ \A u \in TaskIds : (u # LoadTask /\ u < t) => tasks[u].phase # "idle"
    /\ tasks' = [tasks EXCEPT ![t] = StartedTask(vault)]
    /\ UNCHANGED <<pureVars, vault, data, settings, onloadPc, embeddings, search, vaultEdits>>

\* One loop iteration up to the fetch inside createEmbeddingForNote.  In
\* traverseAndReadMarkdownFiles the file is read first; reading a file that
\* has been deleted rejects and the traversal ends there.  The second loop
\* of createEmbeddingsForAllNotes uses the content already read.
TaskRequest(t) ==
    /\ InFlight(tasks[t])
    /\ ~tasks[t].waiting
    /\ LET k == tasks[t]
           gone == k.phase = "traverse" /\ k.files[k.i] \notin vault
       IN /\ tasks' = [tasks EXCEPT ![t] =
                          IF gone THEN [k EXCEPT !.phase = "aborted"]
                          ELSE [k EXCEPT !.waiting = TRUE, !.requests = k.requests + 1]]
          /\ onloadPc' = IF gone /\ t = LoadTask THEN "rejected" ELSE onloadPc
    /\ UNCHANGED <<pureVars, vault, data, settings, embeddings, search, vaultEdits>>

\* Where the task stands once the entry of file k.i has been written.  A
\* ribbon callback that has returned keeps nothing: its locals are released.
TaskAfter(t, k) ==
    IF k.i < Len(k.files) THEN [k EXCEPT !.i = k.i + 1, !.waiting = FALSE]
    ELSE IF k.phase = "traverse" /\ t = LoadTask
         THEN [k EXCEPT !.phase = "second", !.i = 1, !.waiting = FALSE]
         ELSE IF t = LoadTask THEN [k EXCEPT !.phase = "done", !.waiting = FALSE]
         ELSE [IdleTask EXCEPT !.phase = "done"]

\* The embedding exchange of the current file settles:
\* this.embeddings.set(file.path, embedding).  When the load-time rebuild
\* finishes, onload registers the search command.  `failed` remembers the
\* files whose request failed during the load-time rebuild.
TaskResponse(t, resp) ==
    /\ InFlight(tasks[t])
    /\ tasks[t].waiting
    /\ LET k == tasks[t]
           p == k.files[k.i]
           r == CreateEmbeddingForNote(resp)
           k2 == [k EXCEPT !.failed = IF t = LoadTask /\ r.ret = <<>>
                                      THEN k.failed \cup {p} ELSE k.failed,
                           !.writes = k.writes + 1]
           after == TaskAfter(t, k2)
       IN /\ embeddings' = MapSet(embeddings, p, r.ret)
          /\ tasks' = [tasks EXCEPT ![t] = after]
          /\ onloadPc' = IF t = LoadTask /\ after.phase = "done" THEN "done" ELSE onloadPc
    /\ UNCHANGED <<pureVars, vault, data, settings, search, vaultEdits>>

\* ------------------------------------------------------------ the vault
VaultCreate(p) ==
    /\ vaultEdits < MaxVaultEdits
    /\ p \notin vault
    /\ vault' = vault \cup {p}
    /\ vaultEdits' = vaultEdits + 1
    /\ UNCHANGED <<pureVars, data, settings, onloadPc, embeddings, tasks, search>>

VaultDelete(p) ==
    /\ vaultEdits < MaxVaultEdits
    /\ p \in vault
    /\ vault' = vault \ {p}
    /\ vaultEdits' = vaultEdits + 1
    /\ UNCHANGED <<pureVars, data, settings, onloadPc, embeddings, tasks, search>>

\* ------------------------------------------------------------ search
SearchCommandEarly ==
    /\ onloadPc \in {"rebuild", "done", "rejected"}
    /\ search.pc \in {"idle", "done", "closed"}
    /\ search' = [IdleSearch EXCEPT !.pc = "modal"]
    /\ UNCHANGED <<pureVars, vault, data, settings, onloadPc, embeddings, tasks, vaultEdits>>

\* the command callback up to `await this.getUserQuery()`: the modal opens
SearchCommand ==
    /\ onloadPc = "done"
    /\ search.pc \in {"idle", "done", "closed"}
    /\ search' = [IdleSearch EXCEPT !.pc = "modal"]
    /\ UNCHANGED <<pureVars, vault, data, settings, onloadPc, embeddings, tasks, vaultEdits>>

\* Enter key or Search button: resolve(inputEl.value); performSemanticSearch
\* starts and issues the query's embedding request.
ModalSubmit ==
    /\ search.pc = "modal"
    /\ search' = [search EXCEPT !.pc = "embedding", !.submitted = TRUE,
                                 !.requests = search.requests + 1]
    /\ UNCHANGED <<pureVars, vault, data, settings, onloadPc, embeddings, tasks, vaultEdits>>

ModalCloseResolves ==
    /\ search.pc = "modal"
    /\ search' = [search EXCEPT !.pc = "embedding", !.requests = search.requests + 1]
    /\ UNCHANGED <<pureVars, vault, data, settings, onloadPc, embeddings, tasks, vaultEdits>>

\* the modal is dismissed without submitting: the promise stays pending
ModalClose ==
    /\ search.pc = "modal"
    /\ search' = [search EXCEPT !.pc = "closed"]
    /\ UNCHANGED <<pureVars, vault, data, settings, onloadPc, embeddings, tasks, vaultEdits>>

\* The query embedding settles; the rest of performSemanticSearch and
\* displaySearchResults run without interruption.
SearchResponse(resp) ==
    /\ search.pc = "embedding"
    /\ LET r == CreateEmbeddingForNote(resp)
       IN search' = [pc |-> "done", q |-> r.ret, seen |-> embeddings,
                     limit |-> settings.maxNumberOfNotes,
                     results |-> RankAndCut(r.ret, embeddings, settings.maxNumberOfNotes),
                     overlap |-> \E t \in TaskIds : InFlight(tasks[t]),
                     submitted |-> search.submitted,
                     requests |-> search.requests,
                     displays |-> search.displays + 1]
    /\ UNCHANGED <<pureVars, vault, data, settings, onloadPc, embeddings, tasks, vaultEdits>>

Next ==
    \/ LoadSettings
    \/ OnloadFetchTags
    \/ OnloadRegister
    \/ \E e \in MainEntries : SettingOnChange(e)
    \/ \E t \in TaskIds : RibbonClick(t)
    \/ \E t \in TaskIds : TaskRequest(t)
    \/ \E t \in TaskIds, resp \in MainResponses : TaskResponse(t, resp)
    \/ \E p \in Paths : VaultCreate(p)
    \/ \E p \in Paths : VaultDelete(p)
    \/ SearchCommand
    \/ ModalSubmit
    \/ ModalClose
    \/ \E resp \in MainResponses : SearchResponse(resp)

Spec == Init /\ [][Next]_vars

\* --------------------------------------------- the settings tab on its own
NextSettings ==
    \/ LoadSettings
    \/ OnloadFetchTags
    \/ OnloadRegister
    \/ \E e \in Entries : SettingOnChange(e)

InitSettings ==
    /\ PureIdle
    /\ vault \in SUBSET Paths
    /\ data \in SettingsStoredData
    /\ PluginFresh

SpecSettings == InitSettings /\ [][NextSettings]_vars

\* ------------------------------------------- the two functions on their own
InitPure ==
    /\ vec1 \in JSValues
    /\ vec2 \in JSValues
    /\ cosOut = IdleCos
    /\ fetchResp \in Responses
    /\ embCall = IdleCall
    /\ provider = NoProvider
    /\ vault = {}
    /\ data = AbsentData
    /\ PluginFresh

\* this.calculateCosineSimilarity(vec1, vec2)
ComputeCosine ==
    /\ ~cosOut.done
    /\ cosOut' = [cosOut EXCEPT !.done = TRUE,
                                !.score = CalculateCosineSimilarity(vec1, vec2)]
    /\ UNCHANGED <<vec1, vec2, fetchResp, embCall, provider, pluginVars>>

\* this.calculateCosineSimilarity(vec2, vec1)
ComputeSwapped ==
    /\ ~cosOut.swapDone
    /\ cosOut' = [cosOut EXCEPT !.swapDone = TRUE,
                                !.swapScore = CalculateCosineSimilarity(vec2, vec1)]
    /\ UNCHANGED <<vec1, vec2, fetchResp, embCall, provider, pluginVars>>

\* createEmbeddingForNote up to `await fetch(...)`: the one request is sent
EmbedRequest ==
    /\ embCall.pc = "idle"
    /\ embCall' = [embCall EXCEPT !.pc = "fetching", !.requests = embCall.requests + 1]
    /\ UNCHANGED <<vec1, vec2, cosOut, fetchResp, provider, pluginVars>>

\* the exchange settles and createEmbeddingForNote returns or raises
EmbedSettle ==
    /\ embCall.pc = "fetching"
    /\ LET r == CreateEmbeddingForNote(fetchResp)
       IN embCall' = [embCall EXCEPT !.pc = IF r.raised THEN "raised" ELSE "returned",
                                     !.notices = r.notices,
                                     !.ret = r.ret]
    /\ UNCHANGED <<vec1, vec2, cosOut, fetchResp, provider, pluginVars>>

NextPure ==
    \/ ComputeCosine
    \/ ComputeSwapped
    \/ EmbedRequest
    \/ EmbedSettle

SpecPure == InitPure /\ [][NextPure]_vars

\* ------------------------- overlapping rebuilds with a deterministic service
\* The vault does not change and every request for a file's text gets the
\* same outcome, chosen once.
InitDet ==
    /\ vec1 = NotArray /\ vec2 = NotArray /\ cosOut = IdleCos
    /\ fetchResp = NetworkError /\ embCall = IdleCall
    /\ provider \in [Paths -> MainResponses]
    /\ vault \in SUBSET Paths
    /\ data = AbsentData
    /\ PluginFresh

DetTaskResponse(t) ==
    /\ InFlight(tasks[t])
    /\ tasks[t].waiting
    /\ TaskResponse(t, provider[tasks[t].files[tasks[t].i]])

NextDet ==
    \/ LoadSettings
    \/ OnloadFetchTags
    \/ OnloadRegister
    \/ \E t \in TaskIds : RibbonClick(t)
    \/ \E t \in TaskIds : TaskRequest(t)
    \/ \E t \in TaskIds : DetTaskResponse(t)

SpecDet == InitDet /\ [][NextDet]_vars

\* ================================================================ claims
Min(a, b) == IF a < b THEN a ELSE b
SearchDone == search.pc = "done"
SeenScore(p) == CalculateCosineSimilarity(Arr(search.q), Arr(Lookup(search.seen, p)))
ResultPaths == {search.results[i].path : i \in 1..Len(search.results)}

\* C1: with a limit > 0, performSemanticSearch returns exactly
\* min(limit, number of indexed documents) results, each naming a distinct
\* key of the index; on an empty index the result is the empty sequence.
C1_ResultCount ==
    (SearchDone /\ search.limit > 0) =>
        /\ Len(search.results) = Min(search.limit, Len(search.seen))
        /\ ResultPaths \subseteq Keys(search.seen)
        /\ \A i, j \in 1..Len(search.results) :
              i # j => search.results[i].path # search.results[j].path
        /\ (search.seen = <<>> => search.results = <<>>)

\* a search that had to cut: two indexed documents, limit 1
C1_Witness ==
    SearchDone /\ search.limit = 1 /\ Len(search.seen) = 2 /\ Len(search.results) = 1

\* a search over the empty index
C1_WitnessEmpty ==
    SearchDone /\ search.limit > 0 /\ search.seen = <<>> /\ search.results = <<>>

\* C2: the result of performSemanticSearch is the top-K prefix of the index
\* ranked by score: scores never increase along the result, every result
\* carries the score of its document, and no document left out scores
\* strictly higher than a returned one.
C2_TopKSorted ==
    SearchDone =>
        /\ \A i \in 1..Len(search.results) :
              /\ search.results[i].path \in Keys(search.seen)
              /\ search.results[i].score = SeenScore(search.results[i].path)
        /\ \A i \in 1..(Len(search.results) - 1) :
              ScoreGE(search.results[i].score, search.results[i + 1].score)
        /\ \A p \in Keys(search.seen) \ ResultPaths :
              \A i \in 1..Len(search.results) :
                  ~ScoreGT(SeenScore(p), search.results[i].score)

\* the sort had work to do: the document stored second outranks the first
C2_Witness ==
    /\ SearchDone
    /\ Len(search.seen) = 2
    /\ Len(search.results) >= 1
    /\ search.results[1].path = search.seen[2].path
    /\ ScoreGT(search.results[1].score, SeenScore(search.seen[1].path))

IsSuccess(resp) ==
    resp.kind = "json" /\ ~resp.isNull /\ resp.embedding.isArray /\ Len(resp.embedding.elems) > 0

\* C3: createEmbeddingForNote never raises; on a transport failure, a
\* malformed response or an `embedding` that is not a non-empty array it
\* returns [] with exactly one notice; on success it returns the service's
\* array with no notice; one request per call.
C3_ProviderSoftFails ==
    (embCall.pc \in {"returned", "raised"}) =>
        /\ embCall.pc = "returned"
        /\ embCall.requests = 1
        /\ IsSuccess(fetchResp) =>
              (embCall.ret = fetchResp.embedding.elems /\ embCall.notices = 0)
        /\ ~IsSuccess(fetchResp) => (embCall.ret = <<>> /\ embCall.notices = 1)

\* a call whose fetch was rejected has returned
C3_Witness == embCall.pc = "returned" /\ fetchResp.kind = "networkError"

\* C4: a document whose embedding request failed during the load-time
\* rebuild is in the index with a zero-length vector once that rebuild has
\* completed (no other traversal having run).
C4_FailedStaysEmpty ==
    (/\ tasks[LoadTask].phase = "done"
     /\ \A t \in TaskIds \ {LoadTask} : tasks[t].phase = "idle") =>
        \A p \in tasks[LoadTask].failed :
            HasKey(embeddings, p) /\ Lookup(embeddings, p) = <<>>

\* the files a traversal that completes in this step was started with
Supplied(t) ==
    IF InFlight(tasks[t]) THEN Range(tasks[t].files) ELSE Range(tasks'[t].files)

\* C5: when a rebuild completes the index holds no duplicate entries and
\* exactly the identifiers supplied to that rebuild.
C5_RebuildReplacesIndex ==
    [][\A t \in TaskIds :
          (tasks[t].phase # "done" /\ tasks'[t].phase = "done") =>
              /\ Keys(embeddings') = Supplied(t)
              /\ Len(embeddings') = Cardinality(Supplied(t))]_vars

AllZero(v) == \A i \in 1..Len(v) : v[i] = 0
Degenerate(a, b) ==
    \/ ~a.isArray
    \/ ~b.isArray
    \/ Len(a.elems) # Len(b.elems)
    \/ Len(a.elems) = 0
    \/ Len(b.elems) = 0
    \/ AllZero(a.elems)
    \/ AllZero(b.elems)

\* C6: calculateCosineSimilarity returns exactly 0 when the vectors differ
\* in length, either is empty or not an array, or either is all zeros; it
\* never divides by a zero norm (the result is never NaN).
C6_DegenerateIsZero ==
    cosOut.done =>
        /\ ~IsNaN(cosOut.score)
        /\ Degenerate(vec1, vec2) => cosOut.score = Zero

\* equal positive length, first vector all zeros
C6_Witness ==
    /\ cosOut.done
    /\ vec1.isArray /\ vec2.isArray
    /\ Len(vec1.elems) = 2 /\ Len(vec2.elems) = 2
    /\ AllZero(vec1.elems) /\ ~AllZero(vec2.elems)

\* C7: for vectors of equal positive length,
\* calculateCosineSimilarity(a, b) = calculateCosineSimilarity(b, a).
C7_Symmetric ==
    (/\ cosOut.done /\ cosOut.swapDone
     /\ vec1.isArray /\ vec2.isArray
     /\ Len(vec1.elems) = Len(vec2.elems) /\ Len(vec1.elems) > 0) =>
        ScoreEq(cosOut.score, cosOut.swapScore)

\* both orders computed for two vectors of different norm and non-zero score
C7_Witness ==
    /\ cosOut.done /\ cosOut.swapDone
    /\ vec1.isArray /\ vec2.isArray
    /\ Len(vec1.elems) = 2 /\ Len(vec2.elems) = 2
    /\ SumSquares(vec1.elems) # SumSquares(vec2.elems)
    /\ cosOut.score # Zero

\* C8: only createEmbeddingsForAllNotes changes the index: every step that
\* changes an entry is a step of the load-time rebuild.
C8_OnlyRebuildWrites ==
    [][embeddings' # embeddings => tasks'[LoadTask] # tasks[LoadTask]]_vars

IsNumeral(e) ==
    \/ Len(e) > 0 /\ \A i \in 1..Len(e) : IsDigit(e[i])
    \/ Len(e) > 1 /\ e[1] = "-" /\ \A i \in 2..Len(e) : IsDigit(e[i])
InvalidEntry(e) == ~IsNumeral(e) \/ ParseInt(e).val <= 0

\* C9: once loaded, settings.maxNumberOfNotes is an integer > 0, and a
\* settings-tab entry that is non-numeric or <= 0 leaves the settings and
\* the saved data unchanged.
C9_LimitValidated ==
    [][/\ settings'.loaded => settings'.maxNumberOfNotes > 0
       /\ \A e \in Entries :
             (InvalidEntry(e) /\ SettingOnChange(e)) => UNCHANGED <<settings, data>>]_vars

\* C10: no performSemanticSearch reads the index while a traversal that
\* writes it is in flight.
C10_SearchNeverOverlaps == SearchDone => ~search.overlap

\* C11: a completed load-time rebuild over N documents has issued exactly N
\* embedding requests and written the index exactly N times (one request
\* and one write per document).
C11_OneRequestPerDocument ==
    tasks[LoadTask].phase = "done" =>
        /\ tasks[LoadTask].requests = Len(tasks[LoadTask].files)
        /\ tasks[LoadTask].writes = Len(tasks[LoadTask].files)

ExpectedIndex ==
    [i \in 1..Len(VaultFiles(vault)) |->
        [path |-> VaultFiles(vault)[i],
         vec |-> CreateEmbeddingForNote(provider[VaultFiles(vault)[i]]).ret]]

\* C12: with a fixed document set and a service that answers equal text
\* with equal vectors, once the load-time rebuild and every ribbon traversal
\* have finished the index holds the vault's files in vault order, each with
\* the service's vector for its text, whatever the interleaving was.
C12_FinalIndexDeterministic ==
    (onloadPc = "done" /\ \A t \in TaskIds : ~InFlight(tasks[t])) =>
        embeddings = ExpectedIndex

\* the load-time rebuild and a ribbon traversal over two files have finished
C12_Witness ==
    /\ \A t \in TaskIds : tasks[t].phase = "done"
    /\ Len(embeddings) = 2
    /\ provider["A"] # provider["B"]

\* C13: the search command exists only once the load-time rebuild has
\* completed: whenever a search has been invoked, that rebuild is done and
\* every file of its scan has an index entry; a rebuild that is still
\* running or was aborted leaves the command unavailable.
C13_SearchOnlyAfterLoadRebuild ==
    search.pc # "idle" =>
        /\ tasks[LoadTask].phase = "done"
        /\ Range(tasks[LoadTask].files) \subseteq Keys(embeddings)

\* a search has run after a load-time rebuild over two files
C13_Witness == SearchDone /\ Len(tasks[LoadTask].files) = 2

\* the load-time rebuild was aborted and no search was ever invoked
C13_WitnessAborted == tasks[LoadTask].phase = "aborted" /\ search.pc = "idle"

\* C14: when the query's embedding request fails (empty query vector) and
\* the limit is > 0, performSemanticSearch returns the first
\* min(limit, index size) entries of the index in insertion order, each
\* with score 0.
C14_FailedQueryKeepsOrder ==
    (SearchDone /\ search.q = <<>> /\ search.limit > 0) =>
        search.results =
            [i \in 1..Min(search.limit, Len(search.seen)) |->
                [path |-> search.seen[i].path, score |-> Zero]]

\* a failed query against two documents that both have embeddings
C14_Witness ==
    /\ SearchDone /\ search.q = <<>> /\ search.limit > 0
    /\ Len(search.seen) = 2
    /\ search.seen[1].vec # <<>> /\ search.seen[2].vec # <<>>
    /\ Len(search.results) >= 1

InvocationOk(s) ==
    /\ s.requests <= 1
    /\ s.displays <= 1
    /\ (s.requests > 0 \/ s.displays > 0) => s.submitted
    /\ s.pc = "closed" => (~s.submitted /\ s.requests = 0 /\ s.displays = 0)
    /\ s.pc = "done" => (s.requests = 1 /\ s.displays = 1)

\* C15: an invocation of the search command issues its embedding request
\* and shows its results at most once, and only after the query was
\* submitted; once the modal was closed without submitting, or the results
\* were shown, the invocation does nothing more (only a new invocation
\* replaces it).
C15_SearchOncePerSubmit ==
    [][/\ InvocationOk(search')
       /\ search.pc \in {"closed", "done"} =>
             (search' = search \/ search' = [IdleSearch EXCEPT !.pc = "modal"])]_vars

\* the modal was closed without submitting
C15_Witness == search.pc = "closed" /\ search.requests = 0 /\ search.displays = 0

====
